---- MODULE Spec2Model ----
(***************************************************************************)
(* Identity and access-control core of cartasBackEnd: UserController      *)
(* (sign-up, login, PATCH /users/{id}, protected reads) and               *)
(* AreaController, over the Usuario / UsuarioCredentials store held in    *)
(* the MySQL datasource.                                                   *)
(***************************************************************************)
EXTENDS Integers, Sequences, FiniteSets, TLC

(* ------------------------------ bounds -------------------------------- *)
MaxRequests == 3
MaxSlots == 2
MaxAreas == 1
MaxVoters == 2

(* --------------------------- input domains ---------------------------- *)
Slots == 1..MaxSlots
LoginIds == {"x", "ana", "bob"}
Passwords == {"short", "password1"}
AllRoles == {"user", "admin", "secretario", "director"}
Absent == "__absent__"
Votes == {"Allow", "Deny", "Abstain"}

(* --------------------------- JS values -------------------------------- *)
JSNum(n) == [type |-> "number", val |-> n]
JSStr(s) == [type |-> "string", val |-> s]
StrictEq(a, b) == a.type = b.type /\ a.val = b.val
Includes(msg, part) == \E i \in 1..Len(msg) : msg[i] = part

(* --------------- services injected into the controllers --------------- *)
MinLoginIdLength == 3
MinPasswordLength == 8

validateCredentials(c) ==
  Len(c.usuario) >= MinLoginIdLength /\ Len(c.password) >= MinPasswordLength

\* PasswordHasher: a stored hash is tracked up to the salt it embeds, which
\* enters no decision of the controllers.
hashPassword(plain) == <<"$hash", plain>>

comparePassword(plain, stored) ==
  Len(stored) = 2 /\ stored[1] = "$hash" /\ stored = hashPassword(plain)

StatusOf(err) ==
  CASE err = "InvalidCredentialsFormatError" -> 422
    [] err = "IdentityNotFoundError" -> 401
    [] err = "InvalidCredentialsError" -> 401
    [] err = "Unauthorized" -> 401
    [] err = "Forbidden" -> 403
    [] err = "Conflict" -> 409
    [] err = "EntityNotFound" -> 404
    [] OTHER -> 500

VARIABLES users, credentials, areas, tokens, pc, req, last, nreq,
          dRole, dAllowed, dVotes, dResult

vars == <<users, credentials, areas, tokens, pc, req, last, nreq,
          dRole, dAllowed, dVotes, dResult>>
storeVars == <<users, credentials, areas, tokens>>
decideVars == <<dRole, dAllowed, dVotes, dResult>>

(* ---------------------------- the store ------------------------------- *)
CredentialsOf(id) == {c \in credentials : c.usuarioId = id}

DupEntry == [code |-> JSStr("ER_DUP_ENTRY"), errmsg |-> <<>>]
StoreDown == [code |-> JSStr("ECONNREFUSED"), errmsg |-> <<>>]

NoUser == [id |-> 0, usuario |-> Absent, rol |-> Absent]
\* a PATCH body; an id of 0 or a field of Absent is a property the body lacks
NoBody == [id |-> 0, usuario |-> Absent, rol |-> Absent]
NoToken == [payload |-> [securityId |-> <<"str", 0>>, role |-> Absent],
            sig |-> "none"]

NoReq == [op |-> "none", usuario |-> Absent, password |-> Absent,
          rol |-> Absent, hash |-> <<>>, saved |-> NoUser, steps |-> <<>>]

\* What the last completed request did and answered: the steps its handler
\* ran, the HTTP status, the token it returned, the authorization decision
\* taken in front of it, (dup, cause) why it failed or what it changed, and
\* the id a PATCH /users/{id} was applied to.
BaseResp == [op |-> "none", status |-> 0, steps |-> <<>>, dup |-> FALSE,
             cause |-> "none", token |-> NoToken, decision |-> "none",
             target |-> 0]

Respond(fields) ==
  [f \in DOMAIN BaseResp |->
     IF f \in DOMAIN fields THEN fields[f] ELSE BaseResp[f]]

MaxId == IF users = {} THEN 0
         ELSE CHOOSE m \in {u.id : u \in users} :
                \A k \in {u.id : u \in users} : k <= m
NextId == MaxId + 1

Init ==
  /\ users = {}
  /\ credentials = {}
  /\ areas = [next |-> 1, rows |-> {}]
  /\ tokens = {}
  /\ pc = [p \in Slots |-> "idle"]
  /\ req = [p \in Slots |-> NoReq]
  /\ last = BaseResp
  /\ nreq = 0
  /\ dRole = Absent
  /\ dAllowed = {}
  /\ dVotes = <<>>
  /\ dResult = [decision |-> "none", consulted |-> 0]

(* ------------------------- sign-up (create) --------------------------- *)
\* _.pick(newUserRequest, ['usuario', 'password'])
pick(r) == [usuario |-> r.usuario, password |-> r.password]
\* _.omit(newUserRequest, 'password')
omit(r) == [usuario |-> r.usuario, rol |-> r.rol]

CredentialsRejected_Never(c) == FALSE

\* validateCredentials throws on a malformed request
CredentialsRejected(c) == ~validateCredentials(c)

\* the catch block of create / createAdmin: the error that leaves the handler
SignUpCatch(error) ==
  IF StrictEq(error.code, JSNum(11000))
       /\ Includes(error.errmsg, "index: uniqueEmail")
  THEN "Conflict"
  ELSE "Propagated"

RepositoryCreateFails_NoIndex(data) == FALSE

\* usuarioRepository.create: the unique index on usuario rejects a duplicate
RepositoryCreateFails(data) == \E u \in users : u.usuario = data.usuario

RolOfCreate == "user"
RolOfCreateAdmin == "admin"

\* The synchronous prologue of a sign-up handler, up to its first await.
\* Handler instances are interchangeable: a request takes the first idle one.
SignUpBegin(p, op, rolSet, body) ==
  /\ pc[p] = "idle"
  /\ \A q \in Slots : q < p => pc[q] # "idle"
  /\ nreq < MaxRequests
  /\ nreq' = nreq + 1
  /\ LET r == [body EXCEPT !.rol = rolSet] IN
     IF CredentialsRejected(pick(r))
     THEN /\ last' = Respond([op |-> op, steps |-> <<"validate">>,
                              status |-> StatusOf("InvalidCredentialsFormatError")])
          /\ UNCHANGED <<pc, req>>
     ELSE /\ pc' = [pc EXCEPT ![p] = "hash"]
          /\ req' = [req EXCEPT ![p] =
                       [op |-> op, usuario |-> r.usuario,
                        password |-> r.password, rol |-> r.rol,
                        hash |-> <<>>, saved |-> NoUser,
                        steps |-> <<"validate">>]]
          /\ UNCHANGED last
  /\ UNCHANGED <<storeVars, decideVars>>

SignUpBodies == [usuario : LoginIds, password : Passwords,
                 rol : {Absent, "admin"}]

create(p) == \E body \in SignUpBodies : SignUpBegin(p, "create", RolOfCreate, body)

createAdmin(p) ==
  \E body \in SignUpBodies : SignUpBegin(p, "createAdmin", RolOfCreateAdmin, body)

\* await this.passwordHasher.hashPassword(newUserRequest.password)
SignUpHash(p) ==
  /\ pc[p] = "hash"
  /\ req' = [req EXCEPT ![p].hash = hashPassword(req[p].password),
                        ![p].steps = Append(@, "hash")]
  /\ pc' = [pc EXCEPT ![p] = "createUser"]
  /\ UNCHANGED <<storeVars, last, nreq, decideVars>>

\* await this.usuarioRepository.create(_.omit(newUserRequest, 'password'))
SignUpCreateUser(p) ==
  /\ pc[p] = "createUser"
  /\ LET data == omit(req[p])
         steps == Append(req[p].steps, "createUser")
     IN \E down \in BOOLEAN :
        IF down \/ RepositoryCreateFails(data)
        THEN LET error == IF down THEN StoreDown ELSE DupEntry
                 thrown == SignUpCatch(error)
             IN /\ last' = Respond([op |-> req[p].op, steps |-> steps,
                                    dup |-> ~down,
                                    status |-> StatusOf(thrown)])
                /\ pc' = [pc EXCEPT ![p] = "idle"]
                /\ req' = [req EXCEPT ![p] = NoReq]
                /\ UNCHANGED users
        ELSE LET saved == [id |-> NextId, usuario |-> data.usuario,
                           rol |-> data.rol]
             IN /\ users' = users \cup {saved}
                /\ req' = [req EXCEPT ![p].saved = saved, ![p].steps = steps]
                /\ pc' = [pc EXCEPT ![p] = "createCreds"]
                /\ UNCHANGED last
  /\ UNCHANGED <<credentials, areas, tokens, nreq, decideVars>>

\* await this.usuarioRepository.usuarioCredentials(savedUser.id).create({password})
SignUpCreateCredentials(p) ==
  /\ pc[p] = "createCreds"
  /\ LET steps == Append(req[p].steps, "createCreds") IN
     \E down \in BOOLEAN :
       IF down
       THEN /\ last' = Respond([op |-> req[p].op, steps |-> steps,
                                status |-> StatusOf(SignUpCatch(StoreDown))])
            /\ UNCHANGED credentials
       ELSE /\ credentials' = credentials \cup
                   {[usuarioId |-> req[p].saved.id, password |-> req[p].hash]}
            /\ last' = Respond([op |-> req[p].op, steps |-> steps,
                                status |-> 200])
  /\ pc' = [pc EXCEPT ![p] = "idle"]
  /\ req' = [req EXCEPT ![p] = NoReq]
  /\ UNCHANGED <<users, areas, tokens, nreq, decideVars>>

(* ------------------------------- login -------------------------------- *)
LoginPasswords == {"password1", "password2"}

\* UserService.verifyCredentials: lookup by loginId, then password verify
verifyCredentials(c) ==
  IF ~\E u \in users : u.usuario = c.usuario
  THEN [ok |-> FALSE, error |-> "IdentityNotFoundError", user |-> NoUser]
  ELSE LET u == CHOOSE x \in users : x.usuario = c.usuario IN
       IF \E k \in CredentialsOf(u.id) : comparePassword(c.password, k.password)
       THEN [ok |-> TRUE, error |-> "none", user |-> u]
       ELSE [ok |-> FALSE, error |-> "InvalidCredentialsError", user |-> NoUser]

\* UserService.convertToUserProfile: the principal carried in the token
convertToUserProfile(u) == [securityId |-> <<"str", u.id>>, role |-> u.rol]
parseInt(s) == s[2]

\* TokenService.generateToken / verifyToken
generateToken(profile) == [payload |-> profile, sig |-> "signed"]
verifyToken(tok) == tok.sig = "signed"

\* login answering "not found" for an unknown loginId
login_NotFound(c, fault) ==
  LET v == verifyCredentials(c) IN
  IF v.ok
  THEN [status |-> 200, cause |-> "none",
        steps |-> <<"verifyCredentials", "convertToUserProfile",
                    "generateToken">>,
        token |-> generateToken(convertToUserProfile(v.user))]
  ELSE [status |-> IF v.error = "IdentityNotFoundError"
                   THEN StatusOf("EntityNotFound") ELSE StatusOf(v.error),
        cause |-> v.error, steps |-> <<"verifyCredentials">>,
        token |-> NoToken]

\* login signing a token for the looked-up identity whatever the verification says
login_TokenAnyway(c, fault) ==
  LET v == verifyCredentials(c)
      u == IF \E x \in users : x.usuario = c.usuario
           THEN CHOOSE x \in users : x.usuario = c.usuario ELSE NoUser
  IN [status |-> IF v.ok THEN 200 ELSE StatusOf(v.error),
      cause |-> v.error,
      steps |-> <<"verifyCredentials", "convertToUserProfile", "generateToken">>,
      token |-> IF u = NoUser THEN NoToken
                ELSE generateToken(convertToUserProfile(u))]

\* The body of UserController.login for one request; fault is the failure
\* of a collaborator during the request ("none", "store" or "sign").
login(c, fault) ==
  LET v == verifyCredentials(c) IN
  IF fault = "store"
  THEN [status |-> StatusOf("IdentityStoreUnavailableError"),
        cause |-> "IdentityStoreUnavailableError",
        steps |-> <<"verifyCredentials">>, token |-> NoToken]
  ELSE IF ~v.ok
  THEN [status |-> StatusOf(v.error), cause |-> v.error,
        steps |-> <<"verifyCredentials">>, token |-> NoToken]
  ELSE LET userProfile == convertToUserProfile(v.user) IN
       IF fault = "sign"
       THEN [status |-> StatusOf("SigningError"), cause |-> "SigningError",
             steps |-> <<"verifyCredentials", "convertToUserProfile",
                         "generateToken">>,
             token |-> NoToken]
       ELSE [status |-> 200, cause |-> "none",
             steps |-> <<"verifyCredentials", "convertToUserProfile",
                         "generateToken">>,
             token |-> generateToken(userProfile)]

Login ==
  /\ nreq < MaxRequests
  /\ nreq' = nreq + 1
  /\ \E c \in [usuario : LoginIds, password : LoginPasswords],
        fault \in {"none", "store", "sign"} :
       LET r == login(c, fault) IN
       /\ last' = Respond([op |-> "login", status |-> r.status,
                           cause |-> r.cause, steps |-> r.steps,
                           token |-> r.token])
       /\ tokens' = IF r.token = NoToken THEN tokens ELSE tokens \cup {r.token}
  /\ UNCHANGED <<users, credentials, areas, pc, req, decideVars>>

(* --------------------------- authorization ---------------------------- *)
RECURSIVE FirstVote(_, _)
FirstVote(votes, i) ==
  IF i > Len(votes) THEN [decision |-> "Allow", consulted |-> Len(votes)]
  ELSE IF votes[i] # "Abstain" THEN [decision |-> votes[i], consulted |-> i]
  ELSE FirstVote(votes, i + 1)

RECURSIVE LastVote(_, _)
LastVote(votes, i) ==
  IF i = 0 THEN [decision |-> "Allow", consulted |-> Len(votes)]
  ELSE IF votes[i] # "Abstain" THEN [decision |-> votes[i], consulted |-> Len(votes)]
  ELSE LastVote(votes, i - 1)

\* decide letting the last voter that does not abstain win
decide_LastVote(role, allowedRoles, votes) ==
  IF role \notin allowedRoles
  THEN [decision |-> "Deny", consulted |-> 0]
  ELSE LastVote(votes, Len(votes))

\* AuthorizationEngine.decide over the votes the policy's voters cast, in order
decide(role, allowedRoles, votes) ==
  IF role \notin allowedRoles
  THEN [decision |-> "Deny", consulted |-> 0]
  ELSE FirstVote(votes, 1)

NoPolicy == [authorize |-> FALSE, allowedRoles |-> {}, voters |-> <<>>]
AdminOnly == [authorize |-> TRUE, allowedRoles |-> {"admin"},
              voters |-> <<"basicAuthorization">>]
AreaWriters == [authorize |-> TRUE,
                allowedRoles |-> {"admin", "secretario", "director"},
                voters |-> <<"basicAuthorization">>]

\* the @authenticate / @authorize decorators of each endpoint
PolicyOf(op) ==
  CASE op \in {"users.count", "users.find", "users.findById"} -> AdminOnly
    [] op \in {"areas.create", "areas.updateById", "areas.deleteById"} -> AreaWriters
    [] op \in {"users.updateById", "users.me", "areas.count", "areas.find",
               "areas.findById"} -> NoPolicy

TokenProtected == {"users.count", "users.find", "users.findById",
                   "users.updateById", "users.me", "areas.create",
                   "areas.count", "areas.find", "areas.findById",
                   "areas.updateById", "areas.deleteById"}

\* what a caller may present: a token the service issued, or none
Bearers == tokens \cup {NoToken}

\* The interceptors in front of a handler: what the request sequence does
\* before the body. vote is what basicAuthorization casts for this request.
Gate(op, tok, vote) ==
  LET pol == PolicyOf(op)
      d == decide(tok.payload.role, pol.allowedRoles, <<vote>>)
  IN IF ~verifyToken(tok)
     THEN [pass |-> FALSE, status |-> StatusOf("Unauthorized"),
           decision |-> "none"]
     ELSE IF pol.authorize /\ d.decision = "Deny"
     THEN [pass |-> FALSE, status |-> StatusOf("Forbidden"),
           decision |-> "Deny"]
     ELSE [pass |-> TRUE, status |-> 200,
           decision |-> IF pol.authorize THEN d.decision ELSE "none"]

\* A handler whose body only reads: found is whether the read finds its row.
ReadEndpoint(op, tok, vote, found) ==
  /\ nreq < MaxRequests
  /\ nreq' = nreq + 1
  /\ LET g == Gate(op, tok, vote) IN
     last' = Respond([op |-> op, decision |-> g.decision,
                      steps |-> IF g.pass THEN <<"body">> ELSE <<>>,
                      status |-> IF ~g.pass THEN g.status
                                 ELSE IF found THEN 200
                                 ELSE StatusOf("EntityNotFound")])
  /\ UNCHANGED <<storeVars, pc, req, decideVars>>

UserIdArgs == 1..NextId

count == \E tok \in Bearers, vote \in Votes :
  ReadEndpoint("users.count", tok, vote, TRUE)

find == \E tok \in Bearers, vote \in Votes :
  ReadEndpoint("users.find", tok, vote, TRUE)

findById == \E tok \in Bearers, vote \in Votes, userId \in UserIdArgs :
  ReadEndpoint("users.findById", tok, vote,
               \E u \in users : u.id = userId)

printCurrentUser == \E tok \in Bearers :
  LET userId == parseInt(tok.payload.securityId) IN
  ReadEndpoint("users.me", tok, "Abstain",
               \E u \in users : u.id = userId)

(* ------------------------- PATCH /users/{id} -------------------------- *)
\* an UPDATE that also writes the id column the body carries
ApplyPatch_WithId(u, body) ==
  [id |-> IF body.id = 0 THEN u.id ELSE body.id,
   usuario |-> IF body.usuario = Absent THEN u.usuario ELSE body.usuario,
   rol |-> IF body.rol = Absent THEN u.rol ELSE body.rol]

\* UPDATE ... SET <non-id columns of the body> WHERE id = ?
ApplyPatch(u, body) ==
  [id |-> u.id,
   usuario |-> IF body.usuario = Absent THEN u.usuario ELSE body.usuario,
   rol |-> IF body.rol = Absent THEN u.rol ELSE body.rol]

PatchBodies == [id : {0, NextId},
                usuario : {Absent} \cup LoginIds,
                rol : {Absent, "admin", "secretario"}]

\* usuarioRepository.updateById(id, user)
RepositoryUpdateById(id, body) ==
  IF ~\E u \in users : u.id = id
  THEN [error |-> "EntityNotFound", users |-> users, changed |-> "none"]
  ELSE IF body.usuario # Absent
          /\ \E u \in users : u.id # id /\ u.usuario = body.usuario
  THEN [error |-> "ER_DUP_ENTRY", users |-> users, changed |-> "none"]
  ELSE LET old == CHOOSE u \in users : u.id = id
           new == ApplyPatch(old, body)
       IN [error |-> "none",
           users |-> {IF u.id = id THEN ApplyPatch(u, body) ELSE u : u \in users},
           changed |-> IF new.usuario # old.usuario THEN "usuario"
                       ELSE IF new.rol # old.rol THEN "rol"
                       ELSE "none"]

updateById ==
  /\ nreq < MaxRequests
  /\ nreq' = nreq + 1
  /\ \E tok \in Bearers, id \in UserIdArgs, body \in PatchBodies :
       LET g == Gate("users.updateById", tok, "Abstain")
           r == RepositoryUpdateById(id, body)
       IN /\ users' = IF g.pass THEN r.users ELSE users
          /\ last' = Respond([op |-> "users.updateById",
                              decision |-> g.decision,
                              target |-> IF g.pass THEN id ELSE 0,
                              cause |-> IF g.pass THEN r.changed ELSE "none",
                              steps |-> IF g.pass THEN <<"body">> ELSE <<>>,
                              status |-> IF ~g.pass THEN g.status
                                         ELSE IF r.error = "none" THEN 204
                                         ELSE StatusOf(r.error)])
  /\ UNCHANGED <<credentials, areas, tokens, pc, req, decideVars>>

(* --------------------------- AreaController --------------------------- *)
AreaEndpoint(op, tok, vote, found, rows) ==
  /\ nreq < MaxRequests
  /\ nreq' = nreq + 1
  /\ LET g == Gate(op, tok, vote) IN
     /\ last' = Respond([op |-> op, decision |-> g.decision,
                         steps |-> IF g.pass THEN <<"body">> ELSE <<>>,
                         status |-> IF ~g.pass THEN g.status
                                    ELSE IF found THEN 200
                                    ELSE StatusOf("EntityNotFound")])
     /\ areas' = IF g.pass /\ found THEN rows ELSE areas
  /\ UNCHANGED <<users, credentials, tokens, pc, req, decideVars>>

AreaIdArgs == 1..MaxAreas
AreaFound(id) == \E a \in areas.rows : a.id = id

AreaCreate ==
  /\ areas.next <= MaxAreas
  /\ \E tok \in Bearers, vote \in Votes :
       AreaEndpoint("areas.create", tok, vote, TRUE,
                    [next |-> areas.next + 1,
                     rows |-> areas.rows \cup
                                {[id |-> areas.next, updatedAt |-> "created"]}])

AreaCount == \E tok \in Bearers :
  AreaEndpoint("areas.count", tok, "Abstain", TRUE, areas)

AreaFind == \E tok \in Bearers :
  AreaEndpoint("areas.find", tok, "Abstain", TRUE, areas)

AreaFindById == \E tok \in Bearers, id \in AreaIdArgs :
  AreaEndpoint("areas.findById", tok, "Abstain", AreaFound(id), areas)

AreaUpdateById == \E tok \in Bearers, vote \in Votes, id \in AreaIdArgs :
  AreaEndpoint("areas.updateById", tok, vote, AreaFound(id),
               [areas EXCEPT !.rows =
                  {IF a.id = id THEN [a EXCEPT !.updatedAt = "patched"] ELSE a
                     : a \in areas.rows}])

AreaDeleteById == \E tok \in Bearers, vote \in Votes, id \in AreaIdArgs :
  AreaEndpoint("areas.deleteById", tok, vote, AreaFound(id),
               [areas EXCEPT !.rows = {a \in areas.rows : a.id # id}])

Next ==
  \/ \E p \in Slots : create(p)
  \/ \E p \in Slots : createAdmin(p)
  \/ \E p \in Slots : SignUpHash(p)
  \/ \E p \in Slots : SignUpCreateUser(p)
  \/ \E p \in Slots : SignUpCreateCredentials(p)
  \/ Login
  \/ count
  \/ find
  \/ findById
  \/ printCurrentUser
  \/ updateById
  \/ AreaCreate
  \/ AreaCount
  \/ AreaFind
  \/ AreaFindById
  \/ AreaUpdateById
  \/ AreaDeleteById

Spec == Init /\ [][Next]_vars

(* ---------------- AuthorizationEngine.decide in isolation ------------- *)
VoteSeqs == UNION {[1..n -> Votes] : n \in 0..MaxVoters}

InitDecide ==
  /\ users = {}
  /\ credentials = {}
  /\ areas = [next |-> 1, rows |-> {}]
  /\ tokens = {}
  /\ pc = [p \in Slots |-> "idle"]
  /\ req = [p \in Slots |-> NoReq]
  /\ last = BaseResp
  /\ nreq = 0
  /\ dRole \in AllRoles
  /\ dAllowed \in SUBSET AllRoles
  /\ dVotes \in VoteSeqs
  /\ dResult = [decision |-> "none", consulted |-> 0]

Decide ==
  /\ dResult.decision = "none"
  /\ dResult' = decide(dRole, dAllowed, dVotes)
  /\ UNCHANGED <<storeVars, pc, req, last, nreq, dRole, dAllowed, dVotes>>

NextDecide == Decide

SpecDecide == InitDecide /\ [][NextDecide]_vars

(* ============================== claims ================================ *)
SignUpOps == {"create", "createAdmin"}
SignUpSteps == <<"validate", "hash", "createUser", "createCreds">>
IsPrefix(s, t) == Len(s) <= Len(t) /\ \A i \in 1..Len(s) : s[i] = t[i]
LoginInputs == [usuario : LoginIds, password : LoginPasswords]

C2_DuplicateSignUpIsConflict ==
  (last.op \in SignUpOps /\ last.dup) => last.status = StatusOf("Conflict")

C4_Decide ==
  dResult.decision # "none" =>
    LET casts == {i \in 1..Len(dVotes) : dVotes[i] # "Abstain"} IN
    /\ dRole \notin dAllowed =>
         dResult.decision = "Deny" /\ dResult.consulted = 0
    /\ (dRole \in dAllowed /\ casts # {}) =>
         \E i \in casts :
           /\ \A j \in casts : i <= j
           /\ dResult.decision = dVotes[i]
           /\ dResult.consulted = i
    /\ (dRole \in dAllowed /\ casts = {}) => dResult.decision = "Allow"

\* C4 witness: the role is allowed, the first voter abstains and the second
\* one denies.
C4_Witness ==
  /\ dResult.decision = "Deny"
  /\ dRole \in dAllowed
  /\ Len(dVotes) = 2
  /\ dVotes[1] = "Abstain"
  /\ dVotes[2] = "Deny"

\* C5: every token-protected operation enforces a RolePolicy: its body runs
\* only behind an authorization decision, and never behind a Deny.
C5_ProtectedEnforcePolicy ==
  (last.op \in TokenProtected /\ last.steps = <<"body">>) =>
    /\ PolicyOf(last.op).authorize
    /\ last.decision \in {"Allow", "Abstain"}

PatchStep ==
  /\ nreq' = nreq + 1
  /\ pc' = pc
  /\ last'.op = "users.updateById"
  /\ last'.steps = <<"body">>

C8_ValidateFirst ==
  /\ \A p \in Slots :
       /\ IsPrefix(req[p].steps, SignUpSteps)
       /\ pc[p] # "idle" =>
            /\ req[p].steps # <<>>
            /\ validateCredentials(pick(req[p]))
       /\ req[p].hash # <<>> => Len(req[p].steps) >= 2
       /\ req[p].saved # NoUser => Len(req[p].steps) >= 3
  /\ last.op \in SignUpOps =>
       /\ IsPrefix(last.steps, SignUpSteps)
       /\ last.steps # <<>>
       /\ last.status = StatusOf("InvalidCredentialsFormatError")
            <=> last.steps = <<"validate">>

\* C8 witness: a sign-up has been rejected by the validation.
C8_Witness ==
  /\ last.op \in SignUpOps
  /\ last.status = StatusOf("InvalidCredentialsFormatError")
  /\ users = {}
  /\ credentials = {}

\* C9: between requests every stored identity has exactly one credentials
\* record.
C9_OneCredentialsPerIdentity ==
  (\A p \in Slots : pc[p] = "idle") =>
    \A u \in users : Cardinality(CredentialsOf(u.id)) = 1

\* C10: every identity a sign-up creates has the default role 'user', so
\* while no token has been issued no stored identity has another role.
C10_NewUsersHaveDefaultRole ==
  tokens = {} => \A u \in users : u.rol = "user"
====
